---- MODULE Spec2Model ----
(***************************************************************************)
(* WatchAD.py: the command-line lifecycle controller of the WatchAD        *)
(* detection engine.  One controller invocation is one run of main():      *)
(* the command line is parsed, one branch of the if/elif chain is taken,   *)
(* and the branch makes its external calls one after the other (bootstrap  *)
(* steps of install(), probes of check(), subprocess.call()s of start(),   *)
(* stop() and status()).  Every external call is one step of the model; it *)
(* either returns a value or raises, and a raise is an uncaught exception  *)
(* that ends the process with exit status 1.                               *)
(*                                                                         *)
(* Command lines are the ones optparse accepts (no unknown option, no      *)
(* option with its argument missing).  The exit code is the argument of    *)
(* sys.exit() (0 when main() returns).                                     *)
(***************************************************************************)
EXTENDS Integers, Sequences, FiniteSets, TLC

\* ------------------------------------------------------------------ bounds
\* at most this many verb flags on one command line
MaxFlags == 2

\* controller processes: two invocations may be alive at the same time
Procs == {1, 2}

\* ------------------------------------------------------- program constants
ENGINE_PROCESS_NUM == 5

\* the value of an option that was not given (optparse leaves it None)
NoneVal == "<None>"

\* the store_true options of parse_option(), in the order it adds them
Verbs == {"install", "check", "start", "restart", "stop", "status"}

\* the store options of parse_option() (dest names)
Fields == {"domain", "server", "username", "password"}

\* values of a store option: absent, the empty string, a non-empty string
FieldValues == {NoneVal, "", "x"}

\* a parsed command line: the verb flags given and the four store options
ArgvSet ==
  { a \in [flags : SUBSET Verbs, domain : FieldValues, server : FieldValues,
           username : FieldValues, password : FieldValues] :
      Cardinality(a.flags) <= MaxFlags }

\* len(sys.argv): the program name, one token per flag, two per store option
Argc(a) ==
  1 + Cardinality(a.flags) + 2 * Cardinality({f \in Fields : a[f] # NoneVal})

\* Python truthiness of an option value: None and "" are falsy
Truthy(v) == v # NoneVal /\ v # ""

\* an install() that registers the scheduled tasks before the settings
InstallSteps_CrontabEarly ==
  << "init_es_template", "init_ldap_settings", "get_all_dc_names",
     "set_crontab_tasks", "init_default_settings", "init_sensitive_groups",
     "set_learning_end_time_setting" >>

\* the seven calls of install(), in call order
InstallSteps ==
  << "init_es_template", "init_ldap_settings", "get_all_dc_names",
     "init_default_settings", "init_sensitive_groups",
     "set_learning_end_time_setting", "set_crontab_tasks" >>

\* the three probes of check(), in call order
CheckOrder ==
  << "check_es_template", "check_mongo_connection", "check_mq_connection" >>

\* the subprocess.call() command lines (after the -c supervisor.conf part)
StartCmd == "supervisord"
StopCmd == "supervisorctl stop all"
ShutdownCmd == "supervisorctl shutdown"
StatusCmd == "supervisorctl status"

SupervisorCmds == {StartCmd, StopCmd, ShutdownCmd, StatusCmd}

Range(s) == { s[i] : i \in 1..Len(s) }

ExternalCalls == Range(InstallSteps) \cup Range(CheckOrder) \cup SupervisorCmds

\* exit codes a subprocess.call() returns: success, failure
RcValues == {0, 1}

\* the external supervisor as the controller's commands see it
SupStates == {"down", "idle", "running"}

\* a control point: the next external call, or the process exit
Goto(l) == [pc |-> l, code |-> 0]
Exit(c) == [pc |-> "exited", code |-> c]

\* position of an element in a sequence without repetitions
IndexOf(s, x) == CHOOSE i \in 1..Len(s) : s[i] = x

VARIABLES
  pc,        \* pc[p]: "idle", "main", the external call p makes next, "exited"
  verb,      \* verb[p]: the branch of main()'s if/elif chain that p took
  argv,      \* argv[p]: the parsed command line of p
  calls,     \* calls[p]: the external calls p has made, with their outcomes
  exitCode,  \* exitCode[p]: p's exit code, meaningful when pc[p] = "exited"
  checkRet,  \* checkRet[p]: what check() returned to p, "none" before that
  sup,       \* state of the external supervisor
  hist       \* the completed invocations, oldest first

vars == << pc, verb, argv, calls, exitCode, checkRet, sup, hist >>

NoArgv ==
  [flags |-> {}, domain |-> NoneVal, server |-> NoneVal,
   username |-> NoneVal, password |-> NoneVal]

Init ==
  /\ pc = [p \in Procs |-> "idle"]
  /\ verb = [p \in Procs |-> "none"]
  /\ argv = [p \in Procs |-> NoArgv]
  /\ calls = [p \in Procs |-> << >>]
  /\ exitCode = [p \in Procs |-> 0]
  /\ checkRet = [p \in Procs |-> "none"]
  /\ sup \in SupStates
  /\ hist = << >>

\* ------------------------------------------------------------ main()
\* a completeness test that looks at the domain only
ConfigComplete_DomainOnly(a) == Truthy(a.domain)

\* install needs all four store options to be truthy
ConfigComplete(a) ==
  /\ Truthy(a.domain)
  /\ Truthy(a.server)
  /\ Truthy(a.username)
  /\ Truthy(a.password)

\* an if/elif chain that tests the start flag before the check flag
Branch_StartBeforeCheck(a) ==
  IF "install" \in a.flags THEN "install"
  ELSE IF "start" \in a.flags THEN "start"
  ELSE IF "check" \in a.flags THEN "check"
  ELSE IF "restart" \in a.flags THEN "restart"
  ELSE IF "stop" \in a.flags THEN "stop"
  ELSE IF "status" \in a.flags THEN "status"
  ELSE "none"

\* the if/elif chain of main(): the first flag set, in the chain's order
Branch(a) ==
  IF "install" \in a.flags THEN "install"
  ELSE IF "check" \in a.flags THEN "check"
  ELSE IF "start" \in a.flags THEN "start"
  ELSE IF "restart" \in a.flags THEN "restart"
  ELSE IF "stop" \in a.flags THEN "stop"
  ELSE IF "status" \in a.flags THEN "status"
  ELSE "none"

\* a stop() that shuts the supervisor down before stopping the workers
EntryOf_ShutdownFirst(v) ==
  IF v = "install" THEN "init_es_template"
  ELSE IF v \in {"check", "start"} THEN "check_es_template"
  ELSE IF v \in {"restart", "stop"} THEN "supervisorctl shutdown"
  ELSE "supervisorctl status"

\* a start() that trusts a check() that passed in an earlier invocation
EntryOf_CachedCheck(v) ==
  IF v = "install" THEN "init_es_template"
  ELSE IF v = "check" THEN "check_es_template"
  ELSE IF v = "start"
  THEN (IF \E n \in 1..Len(hist) : \E i \in 1..Len(hist[n].calls) :
             /\ hist[n].calls[i].op = "check_mq_connection"
             /\ ~hist[n].calls[i].raised
             /\ hist[n].calls[i].val = 1
        THEN "supervisord"
        ELSE "check_es_template")
  ELSE IF v \in {"restart", "stop"} THEN "supervisorctl stop all"
  ELSE "supervisorctl status"

\* restart(): stop() then start(); start(): check() first
EntryOf(v) ==
  IF v = "install" THEN InstallSteps[1]
  ELSE IF v \in {"check", "start"} THEN CheckOrder[1]
  ELSE IF v \in {"restart", "stop"} THEN StopCmd
  ELSE StatusCmd

\* a main() that waits for a verb when the command line has none
Dispatch_WaitsForVerb(a) ==
  IF Argc(a) < 2 THEN [pc |-> "exited", code |-> 1]
  ELSE IF Branch(a) = "none" THEN [pc |-> "waiting", code |-> 0]
  ELSE IF Branch(a) = "install" /\ ~ConfigComplete(a)
  THEN [pc |-> "exited", code |-> 1]
  ELSE [pc |-> EntryOf(Branch(a)), code |-> 0]

\* where main() goes for a command line
Dispatch(a) ==
  IF Argc(a) < 2 THEN Exit(1)
  ELSE IF Branch(a) = "none" THEN Exit(0)
  ELSE IF Branch(a) = "install" /\ ~ConfigComplete(a) THEN Exit(1)
  ELSE Goto(EntryOf(Branch(a)))

\* a controller process is started with a command line
Launch(p, a) ==
  /\ pc[p] = "idle"
  /\ pc' = [pc EXCEPT ![p] = "main"]
  /\ argv' = [argv EXCEPT ![p] = a]
  /\ verb' = [verb EXCEPT ![p] = "none"]
  /\ calls' = [calls EXCEPT ![p] = << >>]
  /\ exitCode' = [exitCode EXCEPT ![p] = 0]
  /\ checkRet' = [checkRet EXCEPT ![p] = "none"]
  /\ UNCHANGED << sup, hist >>

main(p) ==
  /\ pc[p] = "main"
  /\ LET d == Dispatch(argv[p]) IN
       /\ pc' = [pc EXCEPT ![p] = d.pc]
       /\ exitCode' = [exitCode EXCEPT ![p] = d.code]
       /\ verb' = [verb EXCEPT ![p] =
                     IF Argc(argv[p]) < 2 THEN "none" ELSE Branch(argv[p])]
  /\ UNCHANGED << argv, calls, checkRet, sup, hist >>

\* ------------------------------------------------- external call outcomes
\* the root directory of the engine, imported from _project_dir
project_dir == "<project_dir>"

\* Python str() of a natural number: its decimal digits
Digits == << "0", "1", "2", "3", "4", "5", "6", "7", "8", "9" >>

RECURSIVE str(_)
str(n) ==
  IF n < 10 THEN Digits[n + 1] ELSE str(n \div 10) \o Digits[(n % 10) + 1]

\* a supervisor environment that leaves the worker count out of stop
SupervisorEnv_StopWithoutNum(cmd) ==
  IF cmd \in {StatusCmd, StopCmd}
  THEN { << "WATCHAD_ENGINE_DIR", project_dir >> }
  ELSE { << "WATCHAD_ENGINE_DIR", project_dir >>,
         << "WATCHAD_ENGINE_NUM", str(ENGINE_PROCESS_NUM) >> }

\* the env= argument of a subprocess.call(): the variables the command gets
SupervisorEnv(cmd) ==
  IF cmd = StatusCmd
  THEN { << "WATCHAD_ENGINE_DIR", project_dir >> }
  ELSE { << "WATCHAD_ENGINE_DIR", project_dir >>,
         << "WATCHAD_ENGINE_NUM", str(ENGINE_PROCESS_NUM) >> }

\* the environment passed with an external call: only a subprocess gets one
EnvOf(op) == IF op \in SupervisorCmds THEN SupervisorEnv(op) ELSE {}

Returned(op, v) == [op |-> op, raised |-> FALSE, val |-> v, env |-> EnvOf(op)]
Raised(op) == [op |-> op, raised |-> TRUE, val |-> 0, env |-> EnvOf(op)]

\* an external call whose exception is swallowed: control goes on to k
Step_SwallowsRaise(p, c, k) ==
  /\ calls' = [calls EXCEPT ![p] = Append(@, c)]
  /\ pc' = [pc EXCEPT ![p] = k.pc]
  /\ exitCode' = [exitCode EXCEPT ![p] = k.code]
  /\ UNCHANGED << verb, argv, hist >>

\* p's call of op ends as outcome c and control goes to k
Step(p, c, k) ==
  /\ calls' = [calls EXCEPT ![p] = Append(@, c)]
  /\ pc' = [pc EXCEPT ![p] = IF c.raised THEN "exited" ELSE k.pc]
  /\ exitCode' = [exitCode EXCEPT ![p] = IF c.raised THEN 1 ELSE k.code]
  /\ UNCHANGED << verb, argv, hist >>

\* ------------------------------------------------------------ install()
\* after the k-th bootstrap step returned
AfterInstallStep(k) ==
  IF k < Len(InstallSteps) THEN Goto(InstallSteps[k + 1]) ELSE Exit(0)

install(p) ==
  /\ pc[p] \in Range(InstallSteps)
  /\ \E c \in {Returned(pc[p], 0), Raised(pc[p])} :
       Step(p, c, AfterInstallStep(IndexOf(InstallSteps, pc[p])))
  /\ UNCHANGED << checkRet, sup >>

\* ------------------------------------------------------------ check()
\* a start() that does not look at what check() returned
AfterCheck_IgnoresResult(v, ok) ==
  IF v = "check" THEN [pc |-> "exited", code |-> 0]
  ELSE [pc |-> "supervisord", code |-> 0]

\* a restart() that launches the supervisor whatever check() returned
AfterCheck_RestartLenient(v, ok) ==
  IF v = "check" THEN [pc |-> "exited", code |-> 0]
  ELSE IF ok \/ v = "restart" THEN [pc |-> "supervisord", code |-> 0]
  ELSE [pc |-> "exited", code |-> 0 - 1]

\* a main() that exits with -1 when its check() failed
AfterCheck_CheckVerbFails(v, ok) ==
  IF ok /\ v = "check" THEN [pc |-> "exited", code |-> 0]
  ELSE IF ok THEN [pc |-> "supervisord", code |-> 0]
  ELSE [pc |-> "exited", code |-> 0 - 1]

\* the caller of check(): main() ignores the result, start() exits on False
AfterCheck(v, ok) ==
  IF v = "check" THEN Exit(0)
  ELSE IF ok THEN Goto(StartCmd)
  ELSE Exit(0 - 1)

\* a check() that does not return when the document-store probe fails
CheckReturn_NoShortCircuit(k, val) ==
  IF val = 0 /\ k # 2 THEN "False"
  ELSE IF k < 3 THEN "none"
  ELSE "True"

\* check() after its k-th probe returned val (Python True is 1, False is 0):
\* it returns False, goes on to the next probe ("none"), or returns True
CheckReturn(k, val) ==
  IF val = 0 THEN "False"
  ELSE IF k < Len(CheckOrder) THEN "none"
  ELSE "True"

AfterProbe(v, k, val) ==
  IF CheckReturn(k, val) = "none" THEN Goto(CheckOrder[k + 1])
  ELSE AfterCheck(v, CheckReturn(k, val) = "True")

check(p) ==
  /\ pc[p] \in Range(CheckOrder)
  /\ \E c \in {Returned(pc[p], 1), Returned(pc[p], 0), Raised(pc[p])} :
       LET k == IndexOf(CheckOrder, pc[p]) IN
         /\ Step(p, c, AfterProbe(verb[p], k, c.val))
         /\ checkRet' = [checkRet EXCEPT ![p] =
                           IF c.raised THEN @ ELSE CheckReturn(k, c.val)]
  /\ UNCHANGED sup

\* ------------------------------------------------ the external supervisor
\* what a supervisor command that exited with rc does to the supervisor
SupEffect(cmd, rc, s) ==
  IF rc # 0 THEN s
  ELSE IF cmd = StartCmd THEN "running"
  ELSE IF cmd = StopCmd THEN (IF s = "running" THEN "idle" ELSE s)
  ELSE IF cmd = ShutdownCmd THEN "down"
  ELSE s

\* subprocess.call(cmd, shell=False): returns the command's exit code, or
\* raises and nothing was run (the command is passed as one string, which a
\* POSIX build takes whole as the program's file name: FileNotFoundError)
Subprocess(p, cmd, c, k) ==
  /\ Step(p, c, k)
  /\ sup' = IF c.raised THEN sup ELSE SupEffect(cmd, c.val, sup)
  /\ UNCHANGED checkRet

SubprocessOutcomes(cmd) ==
  { Returned(cmd, rc) : rc \in RcValues } \cup { Raised(cmd) }

\* ------------------------------------------------------------ start()
\* a start() that launches the supervisor again when the launch failed
AfterStart_RetryOnFailure(rc) ==
  IF rc = 0 THEN [pc |-> "exited", code |-> 0]
  ELSE [pc |-> "supervisord", code |-> 0]

\* the exit code of supervisord is logged; start() returns, main() returns
AfterStart(rc) == Exit(0)

\* a start() that waits while another invocation is between the two calls
\* of its stop()
start_WaitsForStop(p) ==
  /\ pc[p] = "supervisord"
  /\ \A q \in Procs \ {p} : pc[q] # "supervisorctl shutdown"
  /\ \E c \in SubprocessOutcomes("supervisord") :
       Subprocess(p, "supervisord", c, [pc |-> "exited", code |-> 0])

start(p) ==
  /\ pc[p] = StartCmd
  /\ \E c \in SubprocessOutcomes(StartCmd) :
       Subprocess(p, StartCmd, c, AfterStart(c.val))

\* ------------------------------------------------------------ stop()
\* a stop() that gives up when the stop command failed
AfterStopAll_AbortOnFailure(rc) ==
  IF rc = 0 THEN [pc |-> "supervisorctl shutdown", code |-> 0]
  ELSE [pc |-> "exited", code |-> 1]

\* stop_rsp is logged; the shutdown call follows
AfterStopAll(rc) == Goto(ShutdownCmd)

\* a restart() that launches the supervisor without start()'s check()
AfterShutdown_SkipsCheck(v, rc) ==
  IF v = "restart" THEN [pc |-> "supervisord", code |-> 0]
  ELSE [pc |-> "exited", code |-> 0]

\* a stop() that repeats the shutdown command when it failed
AfterShutdown_RetryOnFailure(v, rc) ==
  IF rc # 0 THEN [pc |-> "supervisorctl shutdown", code |-> 0]
  ELSE IF v = "restart" THEN [pc |-> "check_es_template", code |-> 0]
  ELSE [pc |-> "exited", code |-> 0]

\* shutdown_rsp is logged; stop() returns to main() or to restart()
AfterShutdown(v, rc) ==
  IF v = "restart" THEN Goto(CheckOrder[1]) ELSE Exit(0)

stop(p) ==
  /\ pc[p] = StopCmd
  /\ \E c \in SubprocessOutcomes(StopCmd) :
       Subprocess(p, StopCmd, c, AfterStopAll(c.val))

shutdown(p) ==
  /\ pc[p] = ShutdownCmd
  /\ \E c \in SubprocessOutcomes(ShutdownCmd) :
       Subprocess(p, ShutdownCmd, c, AfterShutdown(verb[p], c.val))

\* ------------------------------------------------------------ status()
\* a status() that exits with the exit code of the query
AfterStatus_PassesCode(rc) == [pc |-> "exited", code |-> rc]

\* a status() that goes on to stop the workers
AfterStatus_ThenStop(rc) == [pc |-> "supervisorctl stop all", code |-> 0]

\* the result of the call is dropped; status() returns, main() returns
AfterStatus(rc) == Exit(0)

status(p) ==
  /\ pc[p] = StatusCmd
  /\ \E c \in SubprocessOutcomes(StatusCmd) :
       Subprocess(p, StatusCmd, c, AfterStatus(c.val))

\* ------------------------------------------------------- specifications
\* one step of the controller process p
Run(p) ==
  \/ main(p)
  \/ install(p)
  \/ check(p)
  \/ start(p)
  \/ stop(p)
  \/ shutdown(p)
  \/ status(p)

\* one invocation of the controller, with any command line
Next ==
  \/ \E a \in ArgvSet : Launch(1, a)
  \/ Run(1)

Spec == Init /\ [][Next]_vars

\* the controller is one synchronous thread: a process that can take a step
\* takes it, and an external call that is made ends (it returns or raises)
SpecLive == Init /\ [][Next]_vars /\ WF_vars(Run(1))

\* ---------------------------------------------- consecutive invocations
\* what is seen of a completed invocation
Summary(p) ==
  [verb |-> verb[p], calls |-> calls[p], exitCode |-> exitCode[p]]

\* the process p has exited; a later invocation is a fresh process
Reap(p) ==
  /\ pc[p] = "exited"
  /\ hist' = Append(hist, Summary(p))
  /\ pc' = [pc EXCEPT ![p] = "idle"]
  /\ verb' = [verb EXCEPT ![p] = "none"]
  /\ argv' = [argv EXCEPT ![p] = NoArgv]
  /\ calls' = [calls EXCEPT ![p] = << >>]
  /\ exitCode' = [exitCode EXCEPT ![p] = 0]
  /\ checkRet' = [checkRet EXCEPT ![p] = "none"]
  /\ UNCHANGED sup

\* a command line with one verb flag and no other option
VerbOnly(v) == [NoArgv EXCEPT !.flags = {v}]

\* --stop, then --start, then --restart, one invocation after the other
RestartScenario == << VerbOnly("stop"), VerbOnly("start"), VerbOnly("restart") >>

LaunchScenario(p) ==
  /\ Len(hist) < Len(RestartScenario)
  /\ Launch(p, RestartScenario[Len(hist) + 1])

NextSeq ==
  \/ LaunchScenario(1)
  \/ main(1)
  \/ check(1)
  \/ start(1)
  \/ stop(1)
  \/ shutdown(1)
  \/ Reap(1)

SpecSeq == Init /\ [][NextSeq]_vars

\* ------------------------------------------- a check, then a start again
\* --check or --start first, then --start or --restart
RecheckScenario ==
  << {VerbOnly("check"), VerbOnly("start")},
     {VerbOnly("start"), VerbOnly("restart")} >>

LaunchRecheck(p) ==
  /\ Len(hist) < Len(RecheckScenario)
  /\ \E a \in RecheckScenario[Len(hist) + 1] : Launch(p, a)

NextRecheck ==
  \/ LaunchRecheck(1)
  \/ main(1)
  \/ check(1)
  \/ start(1)
  \/ stop(1)
  \/ shutdown(1)
  \/ Reap(1)

SpecRecheck == Init /\ [][NextRecheck]_vars

\* ------------------------------------------- two invocations at a time
\* one administrator runs --start while another runs --stop
NextConc ==
  \/ Launch(1, VerbOnly("start"))
  \/ Launch(2, VerbOnly("stop"))
  \/ main(1)
  \/ main(2)
  \/ check(1)
  \/ start(1)
  \/ stop(2)
  \/ shutdown(2)

SpecConc == Init /\ [][NextConc]_vars

\* ------------------------------------------------- reading a call trace
\* the external calls p made, by name
Ops(cs) == [i \in 1..Len(cs) |-> cs[i].op]

\* op was called in the trace cs
Made(cs, op) == \E i \in 1..Len(cs) : cs[i].op = op

\* the i-th call of cs returned val
ReturnedAt(cs, i, val) == ~cs[i].raised /\ cs[i].val = val

NoRaise(cs) == \A i \in 1..Len(cs) : ~cs[i].raised

IsProbe(c) ==
  c.op \in {"check_es_template", "check_mongo_connection", "check_mq_connection"}

IsSupervisorCall(c) ==
  c.op \in {"supervisord", "supervisorctl stop all", "supervisorctl shutdown",
            "supervisorctl status"}

\* the probe calls of a trace, in call order
ProbeCalls(cs) == SelectSeq(cs, IsProbe)

\* ------------------------------------------------------------------ C1
\* C1: under the Start verb, once check() has returned false the process has
\* exited with code -1 and has made no supervisor call; and in every
\* invocation the supervisor start command is called, or about to be called,
\* only when check() has returned true in that invocation.
C1_StartGatedByCheck ==
  \A p \in Procs :
    /\ (verb[p] = "start" /\ checkRet[p] = "False") =>
          /\ pc[p] = "exited"
          /\ exitCode[p] = 0 - 1
          /\ \A i \in 1..Len(calls[p]) : ~IsSupervisorCall(calls[p][i])
    /\ (pc[p] = "supervisord" \/ Made(calls[p], "supervisord")) =>
          checkRet[p] = "True"

C1_Witness ==
  \E p \in Procs :
    /\ verb[p] = "start"
    /\ checkRet[p] = "False"
    /\ pc[p] = "exited"
    /\ Len(calls[p]) = 3

\* ------------------------------------------------------------------ C2
\* C2: the probes an invocation has called are the first n of search-index,
\* document store, message queue, in that order, all but the last of them
\* having returned true; check() has returned true iff all three returned
\* true, and has returned false iff the last probe called returned false.
C2_CheckShortCircuit ==
  \A p \in Procs :
    LET pr == ProbeCalls(calls[p])
        n == Len(pr)
        order == << "check_es_template", "check_mongo_connection",
                    "check_mq_connection" >>
    IN /\ n <= 3
       /\ \A i \in 1..n :
            /\ pr[i].op = order[i]
            /\ i < n => ReturnedAt(pr, i, 1)
       /\ checkRet[p] = "True" <=> (n = 3 /\ ReturnedAt(pr, 3, 1))
       /\ checkRet[p] = "False" <=> (n >= 1 /\ ReturnedAt(pr, n, 0))

C2_Witness ==
  \E p \in Procs :
    /\ checkRet[p] = "False"
    /\ Len(ProbeCalls(calls[p])) = 2
    /\ ReturnedAt(ProbeCalls(calls[p]), 1, 1)

\* ------------------------------------------------------------------ C3
\* C3: an invocation with the install flag and at least one of the four
\* options missing or empty makes no external call at all and exits with
\* code 1.
C3_IncompleteInstall ==
  \A p \in Procs :
    ( /\ pc[p] \notin {"idle", "main"}
      /\ "install" \in argv[p].flags
      /\ \E f \in {"domain", "server", "username", "password"} :
            argv[p][f] \in {NoneVal, ""} ) =>
      /\ pc[p] = "exited"
      /\ exitCode[p] = 1
      /\ calls[p] = << >>

C3_Witness ==
  \E p \in Procs :
    /\ pc[p] = "exited"
    /\ "install" \in argv[p].flags
    /\ argv[p].domain = "x"
    /\ argv[p].server = "x"
    /\ argv[p].username = "x"
    /\ argv[p].password = ""

\* ------------------------------------------------------------------ C4
\* C4: an invocation with the install flag and all four options non-empty,
\* in which no step raised, ends having called exactly the seven bootstrap
\* steps, once each and in the fixed order, and nothing else, with exit
\* code 0.
C4_InstallOrder ==
  \A p \in Procs :
    ( /\ pc[p] = "exited"
      /\ "install" \in argv[p].flags
      /\ \A f \in {"domain", "server", "username", "password"} :
            argv[p][f] \notin {NoneVal, ""}
      /\ NoRaise(calls[p]) ) =>
      /\ Ops(calls[p]) =
            << "init_es_template", "init_ldap_settings", "get_all_dc_names",
               "init_default_settings", "init_sensitive_groups",
               "set_learning_end_time_setting", "set_crontab_tasks" >>
      /\ exitCode[p] = 0

C4_Witness ==
  \E p \in Procs :
    /\ pc[p] = "exited"
    /\ verb[p] = "install"
    /\ Len(calls[p]) = 7
    /\ NoRaise(calls[p])

\* ------------------------------------------------------------------ C5
\* C5: whenever the stop command has returned, with a zero or a non-zero
\* exit code, the shutdown command is the very next call: the process is
\* about to make it or has made it.
C5_ShutdownAfterStop ==
  \A p \in Procs :
    \A i \in 1..Len(calls[p]) :
      (calls[p][i].op = "supervisorctl stop all" /\ ~calls[p][i].raised) =>
        IF i = Len(calls[p])
        THEN pc[p] = "supervisorctl shutdown"
        ELSE calls[p][i + 1].op = "supervisorctl shutdown"

C5_Witness ==
  \E p \in Procs :
    /\ verb[p] = "stop"
    /\ Len(calls[p]) = 2
    /\ ReturnedAt(calls[p], 1, 1)
    /\ calls[p][2].op = "supervisorctl shutdown"

\* ------------------------------------------------------------------ C6
\* C6: in every invocation the shutdown command is called, or about to be
\* called, only after the stop command was called earlier in the same
\* invocation.
C6_StopBeforeShutdown ==
  \A p \in Procs :
    /\ pc[p] = "supervisorctl shutdown" =>
          Made(calls[p], "supervisorctl stop all")
    /\ \A i \in 1..Len(calls[p]) :
          calls[p][i].op = "supervisorctl shutdown" =>
            \E j \in 1..(i - 1) : calls[p][j].op = "supervisorctl stop all"

C6_Witness ==
  \E p \in Procs :
    /\ verb[p] = "restart"
    /\ Made(calls[p], "supervisorctl shutdown")
    /\ pc[p] = "exited"

\* ------------------------------------------------------------------ C7
IsPrefix(s, t) == Len(s) <= Len(t) /\ \A i \in 1..Len(s) : s[i] = t[i]

\* C7: a --stop invocation followed by a --start invocation, and a --restart
\* invocation, in all of which every call returned: as long as the external
\* calls returned the same results the restart makes the same next call as
\* the stop followed by the start, neither makes a call the other does not
\* make, and with the same results throughout the restart's exit code is
\* the start's.
C7_RestartIsStopThenStart ==
  Len(hist) = 3 =>
    LET st == hist[1].calls \o hist[2].calls
        rs == hist[3].calls
    IN ( /\ hist[1].verb = "stop"
         /\ hist[2].verb = "start"
         /\ hist[3].verb = "restart"
         /\ NoRaise(st)
         /\ NoRaise(rs) ) =>
         /\ \A i \in 1..Len(rs) :
              (i <= Len(st) /\ \A j \in 1..(i - 1) : rs[j] = st[j]) =>
                rs[i].op = st[i].op
         /\ ~(IsPrefix(rs, st) /\ Len(rs) < Len(st))
         /\ ~(IsPrefix(st, rs) /\ Len(st) < Len(rs))
         /\ rs = st => hist[3].exitCode = hist[2].exitCode

C7_Witness ==
  /\ Len(hist) = 3
  /\ hist[3].verb = "restart"
  /\ NoRaise(hist[3].calls)
  /\ hist[3].calls = hist[1].calls \o hist[2].calls
  /\ Len(hist[2].calls) = 2
  /\ hist[3].exitCode = 0 - 1

\* ------------------------------------------------------------------ C8
\* C8: an invocation whose command line has no verb flag (no argument at
\* all, or only -d/-s/-u/-p options) makes no external call and exits with
\* code 1.
C8_NoVerbExitsNonZero ==
  \A p \in Procs :
    (pc[p] \notin {"idle", "main"} /\ argv[p].flags = {}) =>
      /\ pc[p] = "exited"
      /\ calls[p] = << >>
      /\ exitCode[p] = 1

\* ------------------------------------------------------------------ C9
\* under the Status verb the status query is the only external call: none
\* before it is made, exactly that one once the process has exited
C9_StatusCalls ==
  \A p \in Procs :
    verb[p] = "status" =>
      /\ pc[p] \in {"supervisorctl status", "exited"}
      /\ pc[p] = "supervisorctl status" => calls[p] = << >>
      /\ pc[p] = "exited" => Ops(calls[p]) = << "supervisorctl status" >>

\* C9: the Status verb makes exactly one call, the status query, and that
\* call changes no supervisor state.
C9_StatusQueryOnly ==
  /\ []C9_StatusCalls
  /\ [][\A p \in Procs :
          (verb[p] = "status" /\ calls'[p] # calls[p]) => sup' = sup]_vars

C9_Witness ==
  \E p \in Procs :
    /\ verb[p] = "status"
    /\ pc[p] = "exited"
    /\ sup = "running"
    /\ ReturnedAt(calls[p], 1, 0)

\* ----------------------------------------------------------------- C10
\* C10 as claimed: under the Status verb a query that returned a non-zero
\* code gives a non-zero exit code, one that returned zero gives 0.
C10_ExitReflectsQuery ==
  \A p \in Procs :
    ( /\ verb[p] = "status"
      /\ pc[p] = "exited"
      /\ Len(calls[p]) = 1
      /\ ~calls[p][1].raised ) =>
      (exitCode[p] = 0 <=> calls[p][1].val = 0)

\* C10 amended: under the Status verb, when the query call returns, the
\* exit code is 0 whatever code the query returned.
C10_StatusExitsZero ==
  \A p \in Procs :
    ( /\ verb[p] = "status"
      /\ pc[p] = "exited"
      /\ Len(calls[p]) = 1
      /\ ~calls[p][1].raised ) =>
      exitCode[p] = 0

C10_Witness ==
  \E p \in Procs :
    /\ verb[p] = "status"
    /\ pc[p] = "exited"
    /\ ReturnedAt(calls[p], 1, 1)
    /\ exitCode[p] = 0

\* ----------------------------------------------------------------- C11
\* C11: under the Start verb, once the supervisor start command has returned
\* a non-zero code the process has exited with code 0, and that call is its
\* last call and its only call of the start command.
C11_StartFailureNoRetry ==
  \A p \in Procs :
    \A i \in 1..Len(calls[p]) :
      ( /\ verb[p] = "start"
        /\ calls[p][i].op = "supervisord"
        /\ ~calls[p][i].raised
        /\ calls[p][i].val # 0 ) =>
        /\ checkRet[p] = "True"
        /\ pc[p] = "exited"
        /\ exitCode[p] = 0
        /\ i = Len(calls[p])
        /\ \A j \in 1..Len(calls[p]) : calls[p][j].op = "supervisord" => j = i

C11_Witness ==
  \E p \in Procs :
    /\ verb[p] = "start"
    /\ pc[p] = "exited"
    /\ Len(calls[p]) = 4
    /\ ReturnedAt(calls[p], 4, 1)

\* ----------------------------------------------------------------- C12
\* C12 as claimed: every call of the supervisor (start, stop, shutdown,
\* status) is passed the engine root directory and the worker count, the
\* constant 5, and no other variable.
C12_EveryCallCarriesBoth ==
  \A p \in Procs :
    \A i \in 1..Len(calls[p]) :
      IsSupervisorCall(calls[p][i]) =>
        calls[p][i].env = { << "WATCHAD_ENGINE_DIR", project_dir >>,
                            << "WATCHAD_ENGINE_NUM", "5" >> }

\* C12 amended: every start, stop and shutdown call of the supervisor is
\* passed exactly the engine root directory and the worker count, the
\* constant 5; the status call is passed the engine root directory only.
C12_SupervisorEnv ==
  \A p \in Procs :
    \A i \in 1..Len(calls[p]) :
      IsSupervisorCall(calls[p][i]) =>
        calls[p][i].env =
          IF calls[p][i].op = "supervisorctl status"
          THEN { << "WATCHAD_ENGINE_DIR", project_dir >> }
          ELSE { << "WATCHAD_ENGINE_DIR", project_dir >>,
                 << "WATCHAD_ENGINE_NUM", "5" >> }

C12_Witness ==
  \E p \in Procs :
    /\ verb[p] = "restart"
    /\ pc[p] = "exited"
    /\ Len(calls[p]) = 6
    /\ calls[p][6].env = calls[p][1].env
    /\ << "WATCHAD_ENGINE_NUM", "5" >> \in calls[p][6].env

\* ----------------------------------------------------------------- C13
\* the verbs in the order install, check, start, restart, stop, status
VerbOrder == << "install", "check", "start", "restart", "stop", "status" >>

\* the first of the given flags in that order
FirstVerb(flags) ==
  VerbOrder[CHOOSE i \in 1..6 :
              /\ VerbOrder[i] \in flags
              /\ \A j \in 1..(i - 1) : VerbOrder[j] \notin flags]

\* the external calls that belong to a verb
CallsOfVerb(v) ==
  IF v = "install"
  THEN { "init_es_template", "init_ldap_settings", "get_all_dc_names",
         "init_default_settings", "init_sensitive_groups",
         "set_learning_end_time_setting", "set_crontab_tasks" }
  ELSE IF v = "check"
  THEN { "check_es_template", "check_mongo_connection", "check_mq_connection" }
  ELSE IF v = "start"
  THEN { "check_es_template", "check_mongo_connection", "check_mq_connection",
         "supervisord" }
  ELSE IF v = "restart"
  THEN { "supervisorctl stop all", "supervisorctl shutdown",
         "check_es_template", "check_mongo_connection", "check_mq_connection",
         "supervisord" }
  ELSE IF v = "stop"
  THEN { "supervisorctl stop all", "supervisorctl shutdown" }
  ELSE { "supervisorctl status" }

\* C13: an invocation given one or more verb flags runs the first of them in
\* the order install, check, start, restart, stop, status and no other:
\* every external call it makes belongs to that verb, and when that verb is
\* install with an incomplete config it makes no call at all.
C13_OneVerbPerRun ==
  \A p \in Procs :
    (pc[p] \notin {"idle", "main"} /\ argv[p].flags # {}) =>
      /\ verb[p] = FirstVerb(argv[p].flags)
      /\ \A i \in 1..Len(calls[p]) :
           calls[p][i].op \in CallsOfVerb(FirstVerb(argv[p].flags))
      /\ ( /\ "install" \in argv[p].flags
           /\ \E f \in {"domain", "server", "username", "password"} :
                 argv[p][f] \in {NoneVal, ""} ) => calls[p] = << >>

C13_Witness ==
  \E p \in Procs :
    /\ argv[p].flags = {"check", "start"}
    /\ pc[p] = "exited"
    /\ checkRet[p] = "True"
    /\ Len(calls[p]) = 3

\* ----------------------------------------------------------------- C14
\* check() returned true in the invocation with the trace cs
CheckPassed(cs) ==
  /\ Len(ProbeCalls(cs)) = 3
  /\ \A i \in 1..3 : ReturnedAt(ProbeCalls(cs), i, 1)

\* a probe of the trace cs returned false
ProbeFailed(cs) ==
  \E i \in 1..Len(cs) : IsProbe(cs[i]) /\ ReturnedAt(cs, i, 0)

\* C14: after a Check or Start invocation whose check() passed, a Start or
\* Restart invocation probes again: it calls, or is about to call, the
\* supervisor start command only when its own three probes have returned
\* true, and when one of its probes has returned false it has exited with
\* code -1 without calling the start command.
C14_ReadinessNotCached ==
  \A p \in Procs :
    ( /\ Len(hist) = 1
      /\ hist[1].verb \in {"check", "start"}
      /\ CheckPassed(hist[1].calls)
      /\ verb[p] \in {"start", "restart"} ) =>
      /\ (pc[p] = "supervisord" \/ Made(calls[p], "supervisord")) =>
            CheckPassed(calls[p])
      /\ ProbeFailed(calls[p]) =>
            /\ pc[p] = "exited"
            /\ exitCode[p] = 0 - 1
            /\ ~Made(calls[p], "supervisord")

C14_Witness ==
  \E p \in Procs :
    /\ Len(hist) = 1
    /\ hist[1].verb = "start"
    /\ CheckPassed(hist[1].calls)
    /\ Made(hist[1].calls, "supervisord")
    /\ verb[p] = "start"
    /\ pc[p] = "exited"
    /\ Len(calls[p]) = 3
    /\ ReturnedAt(calls[p], 3, 0)

\* ----------------------------------------------------------------- C15
\* C15: under the Restart verb, once check() has returned false the process
\* has exited with code -1; its first two calls were the stop command and
\* then the shutdown command, every later call is a probe, and the
\* supervisor start command was not called.
C15_RestartCheckFails ==
  \A p \in Procs :
    (verb[p] = "restart" /\ checkRet[p] = "False") =>
      /\ pc[p] = "exited"
      /\ exitCode[p] = 0 - 1
      /\ Len(calls[p]) >= 3
      /\ calls[p][1].op = "supervisorctl stop all"
      /\ calls[p][2].op = "supervisorctl shutdown"
      /\ \A i \in 3..Len(calls[p]) : IsProbe(calls[p][i])

C15_Witness ==
  \E p \in Procs :
    /\ verb[p] = "restart"
    /\ checkRet[p] = "False"
    /\ ReturnedAt(calls[p], 1, 0)
    /\ ReturnedAt(calls[p], 2, 0)
    /\ Len(calls[p]) = 4
    /\ sup = "down"

\* ----------------------------------------------------------------- C16
\* C16: under the Install verb, when bootstrap step k has raised, the calls
\* made are exactly steps 1..k in the fixed order, once each, steps 1..k-1
\* having returned: no later step and no other call follows the failure.
C16_InstallNoRollback ==
  \A p \in Procs :
    (verb[p] = "install" /\ \E i \in 1..Len(calls[p]) : calls[p][i].raised) =>
      LET k == Len(calls[p])
          steps == << "init_es_template", "init_ldap_settings",
                      "get_all_dc_names", "init_default_settings",
                      "init_sensitive_groups", "set_learning_end_time_setting",
                      "set_crontab_tasks" >>
      IN /\ pc[p] = "exited"
         /\ k <= 7
         /\ Ops(calls[p]) = SubSeq(steps, 1, k)
         /\ calls[p][k].raised
         /\ \A i \in 1..(k - 1) : ~calls[p][i].raised

C16_Witness ==
  \E p \in Procs :
    /\ verb[p] = "install"
    /\ pc[p] = "exited"
    /\ Len(calls[p]) = 4
    /\ calls[p][4].raised

\* ----------------------------------------------------------------- C17
\* C17: in one invocation no external call is made twice: every probe,
\* every bootstrap step and each of the start, stop, shutdown and status
\* commands occurs at most once among the invocation's calls, whatever the
\* calls returned.
C17_NoRetry ==
  \A p \in Procs :
    \A i, j \in 1..Len(calls[p]) :
      calls[p][i].op = calls[p][j].op => i = j

C17_Witness ==
  \E p \in Procs :
    /\ verb[p] = "restart"
    /\ pc[p] = "exited"
    /\ Len(calls[p]) = 6
    /\ ReturnedAt(calls[p], 1, 1)
    /\ ReturnedAt(calls[p], 2, 1)
    /\ ReturnedAt(calls[p], 6, 1)

\* ----------------------------------------------------------------- C18
\* C18: under the Check verb every external call is a probe, and once
\* check() has returned false the process has exited with code 0; a process
\* that has exited with code -1 ran Start or Restart and its check()
\* returned false.
C18_CheckVerbNeverAborts ==
  \A p \in Procs :
    /\ verb[p] = "check" =>
          /\ \A i \in 1..Len(calls[p]) : IsProbe(calls[p][i])
          /\ checkRet[p] = "False" => (pc[p] = "exited" /\ exitCode[p] = 0)
    /\ (pc[p] = "exited" /\ exitCode[p] = 0 - 1) =>
          (verb[p] \in {"start", "restart"} /\ checkRet[p] = "False")

C18_Witness ==
  \E p \in Procs :
    /\ verb[p] = "check"
    /\ checkRet[p] = "False"
    /\ pc[p] = "exited"
    /\ Len(calls[p]) = 2

\* ----------------------------------------------------------------- C19
\* a Start invocation is about to launch the supervisor while a Stop
\* invocation is between its stop and its shutdown command: either may go
\* first
C19_BothMayGo ==
  \A p, q \in Procs :
    (pc[p] = "supervisord" /\ pc[q] = "supervisorctl shutdown") =>
      (ENABLED start(p) /\ ENABLED shutdown(q))

\* a start or shutdown command that succeeds sets the supervisor's state by
\* itself, whatever the other invocation has done: the last one wins
C19_LastOneWins ==
  \A p \in Procs :
    ( /\ Len(calls'[p]) = Len(calls[p]) + 1
      /\ ReturnedAt(calls'[p], Len(calls'[p]), 0) ) =>
      LET op == calls'[p][Len(calls'[p])].op
      IN /\ op = "supervisord" => sup' = "running"
         /\ op = "supervisorctl shutdown" => sup' = "down"

\* C19: a Start and a Stop invocation running at the same time are not
\* synchronized: the start command can be issued between the Stop
\* invocation's stop and shutdown commands, and the supervisor's state
\* follows the order in which the commands happen to be issued.
C19_StartStopRace ==
  /\ []C19_BothMayGo
  /\ [][C19_LastOneWins]_vars

C19_Witness ==
  /\ verb[1] = "start"
  /\ verb[2] = "stop"
  /\ pc[2] = "supervisorctl shutdown"
  /\ Len(calls[2]) = 1
  /\ ReturnedAt(calls[2], 1, 0)
  /\ Len(calls[1]) = 4
  /\ ReturnedAt(calls[1], 4, 0)
  /\ sup = "running"

\* both invocations are over with every call successful, the engine runs
C19_EndsRunning ==
  /\ pc[1] = "exited" /\ Len(calls[1]) = 4 /\ ReturnedAt(calls[1], 4, 0)
  /\ pc[2] = "exited" /\ Len(calls[2]) = 2
  /\ ReturnedAt(calls[2], 1, 0) /\ ReturnedAt(calls[2], 2, 0)
  /\ sup = "running"

\* the same invocations with the same results, the supervisor is down
C19_EndsDown ==
  /\ pc[1] = "exited" /\ Len(calls[1]) = 4 /\ ReturnedAt(calls[1], 4, 0)
  /\ pc[2] = "exited" /\ Len(calls[2]) = 2
  /\ ReturnedAt(calls[2], 1, 0) /\ ReturnedAt(calls[2], 2, 0)
  /\ sup = "down"

\* ----------------------------------------------------------------- C20
\* C20: every invocation that has entered main() eventually exits, whatever
\* its command line and whatever its external calls return.
C20_EveryRunTerminates ==
  \A p \in Procs : (pc[p] = "main") ~> (pc[p] = "exited")

C20_Witness ==
  \E p \in Procs :
    /\ verb[p] = "restart"
    /\ pc[p] = "exited"
    /\ Len(calls[p]) = 6
    /\ NoRaise(calls[p])

====
